---- MODULE Spec2Model ----
(***************************************************************************)
(* Model of the Messenger Translator webhook server (server.js).           *)
(*                                                                         *)
(* One JavaScript turn is one action: the GET and POST route handlers run  *)
(* to completion (they contain no await), and an event handler             *)
(* (receivedMessage / receivedPostback) advances by one action each time   *)
(* the outbound call it awaits settles.                                    *)
(*                                                                         *)
(* Strings the code takes apart (message text, postback title, the         *)
(* x-hub-signature header) are sequences of characters (one-character      *)
(* strings; a digest in the signature header is four unbreakable tokens:   *)
(* the digest function, the key and the bytes it was computed over), so    *)
(* that split, the lookup of the digest name and the two regular           *)
(* expressions are computed, not assumed.                                  *)
(* An optional JavaScript value is a sequence of length at most one:       *)
(* None is undefined, Some(x) is x.                                        *)
(***************************************************************************)
EXTENDS Integers, Sequences, FiniteSets, TLC

VARIABLES http, handlers, store, outbox, log

vars == <<http, handlers, store, outbox, log>>

(***************************************************************************)
(* Bounds of the model.                                                    *)
(***************************************************************************)
\* HTTP requests served in one behaviour
MaxRequests == 1
\* event handlers started in one behaviour
MaxHandlers == 2
\* events in one delivery
MaxEvents == 3
\* entries in one delivery
MaxEntries == 2

None == <<>>
Some(x) == <<x>>
IsSome(o) == Len(o) > 0
Val(o) == o[1]

(***************************************************************************)
(* Process environment (server.js 31-35).                                  *)
(***************************************************************************)
VALIDATION_TOKEN == "validation-token"
APP_SECRET == "app-secret"


(***************************************************************************)
(* String.prototype.split with a non-empty separator: the pieces between   *)
(* the non-overlapping occurrences of sep, scanning from the left.         *)
(***************************************************************************)
RECURSIVE SplitFrom(_, _, _, _)
SplitFrom(s, sep, i, cur) ==
  IF i > Len(s) THEN <<cur>>
  ELSE IF i + Len(sep) - 1 <= Len(s) /\ SubSeq(s, i, i + Len(sep) - 1) = sep
       THEN <<cur>> \o SplitFrom(s, sep, i + Len(sep), <<>>)
       ELSE SplitFrom(s, sep, i + 1, Append(cur, s[i]))

Split(s, sep) == SplitFrom(s, sep, 1, <<>>)

\* array[i] with a zero-based index: undefined past the end
At(arr, i) == IF i + 1 <= Len(arr) THEN Some(arr[i + 1]) ELSE None

(***************************************************************************)
(* The response object of one request.  `sent` is what went on the wire    *)
(* (the first send), `attempts` counts the calls of res.send, `statusCode` *)
(* is the property res.status() assigns.                                   *)
(***************************************************************************)
NewRes == [sent |-> None, attempts |-> 0, statusCode |-> 200, threw |-> FALSE]

HeadersSent(res) == IsSome(res.sent)

\* res.status(code).send(body): a send after the headers went out throws
\* ERR_HTTP_HEADERS_SENT and changes nothing on the wire
ResSend(res, code, body) ==
  IF HeadersSent(res)
  THEN [res EXCEPT !.statusCode = code, !.attempts = @ + 1, !.threw = TRUE]
  ELSE [res EXCEPT !.statusCode = code, !.attempts = @ + 1,
                   !.sent = Some([status |-> code, body |-> body])]

\* an exception leaving a middleware or a route: the framework answers with the
\* error's status unless the headers already went out
OnError(res, code) ==
  IF HeadersSent(res) THEN [res EXCEPT !.threw = TRUE]
  ELSE [res EXCEPT !.threw = TRUE, !.statusCode = code,
                   !.sent = Some([status |-> code, body |-> "Error"])]

(***************************************************************************)
(* Signature verification (express.json verify callback).                  *)
(***************************************************************************)
Uppers == <<"A", "B", "C", "D", "E", "F", "G", "H", "I", "J", "K", "L", "M", "N", "O", "P", "Q", "R", "S", "T", "U", "V", "W", "X", "Y", "Z">>
Lowers == <<"a", "b", "c", "d", "e", "f", "g", "h", "i", "j", "k", "l", "m", "n", "o", "p", "q", "r", "s", "t", "u", "v", "w", "x", "y", "z">>

\* letters compared without case (the i flag of the patterns, the digest
\* names of the crypto library)
FoldMap ==
  [c \in {Uppers[i] : i \in 1..Len(Uppers)} |->
     Lowers[CHOOSE i \in 1..Len(Uppers) : Uppers[i] = c]]

Fold(c) == IF c \in DOMAIN FoldMap THEN FoldMap[c] ELSE c

FoldAll(s) == [n \in 1..Len(s) |-> Fold(s[n])]

\* the digest names crypto.createHmac resolves (OpenSSL 3 with its default
\* provider: short and long names, provider names, aliases and object
\* identifiers), in lower case, each with the digest it stands for.  md4,
\* whirlpool, shake128 and shake256 have names too, but createHmac throws for
\* them, as it does for a name that stands for no digest.
DigestTable ==
  { <<<<"b", "l", "a", "k", "e", "2", "b", "5", "1", "2">>, "blake2b512">>,
    <<<<"b", "l", "a", "k", "e", "2", "b", "-", "5", "1", "2">>, "blake2b512">>,
    <<<<"1", ".", "3", ".", "6", ".", "1", ".", "4", ".", "1", ".", "1", "7", "2", "2", ".", "1", "2", ".", "2", ".", "1", ".", "1", "6">>, "blake2b512">>,
    <<<<"b", "l", "a", "k", "e", "2", "s", "2", "5", "6">>, "blake2s256">>,
    <<<<"b", "l", "a", "k", "e", "2", "s", "-", "2", "5", "6">>, "blake2s256">>,
    <<<<"1", ".", "3", ".", "6", ".", "1", ".", "4", ".", "1", ".", "1", "7", "2", "2", ".", "1", "2", ".", "2", ".", "2", ".", "8">>, "blake2s256">>,
    <<<<"m", "d", "5">>, "md5">>,
    <<<<"r", "s", "a", "-", "m", "d", "5">>, "md5">>,
    <<<<"s", "s", "l", "3", "-", "m", "d", "5">>, "md5">>,
    <<<<"1", ".", "2", ".", "8", "4", "0", ".", "1", "1", "3", "5", "4", "9", ".", "2", ".", "5">>, "md5">>,
    <<<<"m", "d", "5", "w", "i", "t", "h", "r", "s", "a", "e", "n", "c", "r", "y", "p", "t", "i", "o", "n">>, "md5">>,
    <<<<"m", "d", "5", "-", "s", "h", "a", "1">>, "md5-sha1">>,
    <<<<"r", "i", "p", "e", "m", "d">>, "ripemd160">>,
    <<<<"r", "m", "d", "1", "6", "0">>, "ripemd160">>,
    <<<<"r", "i", "p", "e", "m", "d", "1", "6", "0">>, "ripemd160">>,
    <<<<"r", "i", "p", "e", "m", "d", "-", "1", "6", "0">>, "ripemd160">>,
    <<<<"1", ".", "3", ".", "3", "6", ".", "3", ".", "2", ".", "1">>, "ripemd160">>,
    <<<<"r", "s", "a", "-", "r", "i", "p", "e", "m", "d", "1", "6", "0">>, "ripemd160">>,
    <<<<"r", "i", "p", "e", "m", "d", "1", "6", "0", "w", "i", "t", "h", "r", "s", "a">>, "ripemd160">>,
    <<<<"s", "h", "a", "1">>, "sha1">>,
    <<<<"s", "h", "a", "-", "1">>, "sha1">>,
    <<<<"r", "s", "a", "-", "s", "h", "a", "1">>, "sha1">>,
    <<<<"s", "s", "l", "3", "-", "s", "h", "a", "1">>, "sha1">>,
    <<<<"r", "s", "a", "-", "s", "h", "a", "1", "-", "2">>, "sha1">>,
    <<<<"1", ".", "3", ".", "1", "4", ".", "3", ".", "2", ".", "2", "6">>, "sha1">>,
    <<<<"s", "h", "a", "1", "w", "i", "t", "h", "r", "s", "a", "e", "n", "c", "r", "y", "p", "t", "i", "o", "n">>, "sha1">>,
    <<<<"s", "h", "a", "2", "2", "4">>, "sha224">>,
    <<<<"s", "h", "a", "-", "2", "2", "4">>, "sha224">>,
    <<<<"s", "h", "a", "2", "-", "2", "2", "4">>, "sha224">>,
    <<<<"r", "s", "a", "-", "s", "h", "a", "2", "2", "4">>, "sha224">>,
    <<<<"2", ".", "1", "6", ".", "8", "4", "0", ".", "1", ".", "1", "0", "1", ".", "3", ".", "4", ".", "2", ".", "4">>, "sha224">>,
    <<<<"s", "h", "a", "2", "2", "4", "w", "i", "t", "h", "r", "s", "a", "e", "n", "c", "r", "y", "p", "t", "i", "o", "n">>, "sha224">>,
    <<<<"s", "h", "a", "2", "5", "6">>, "sha256">>,
    <<<<"s", "h", "a", "-", "2", "5", "6">>, "sha256">>,
    <<<<"s", "h", "a", "2", "-", "2", "5", "6">>, "sha256">>,
    <<<<"r", "s", "a", "-", "s", "h", "a", "2", "5", "6">>, "sha256">>,
    <<<<"2", ".", "1", "6", ".", "8", "4", "0", ".", "1", ".", "1", "0", "1", ".", "3", ".", "4", ".", "2", ".", "1">>, "sha256">>,
    <<<<"s", "h", "a", "2", "5", "6", "w", "i", "t", "h", "r", "s", "a", "e", "n", "c", "r", "y", "p", "t", "i", "o", "n">>, "sha256">>,
    <<<<"s", "h", "a", "3", "-", "2", "2", "4">>, "sha3-224">>,
    <<<<"r", "s", "a", "-", "s", "h", "a", "3", "-", "2", "2", "4">>, "sha3-224">>,
    <<<<"2", ".", "1", "6", ".", "8", "4", "0", ".", "1", ".", "1", "0", "1", ".", "3", ".", "4", ".", "2", ".", "7">>, "sha3-224">>,
    <<<<"i", "d", "-", "r", "s", "a", "s", "s", "a", "-", "p", "k", "c", "s", "1", "-", "v", "1", "_", "5", "-", "w", "i", "t", "h", "-", "s", "h", "a", "3", "-", "2", "2", "4">>, "sha3-224">>,
    <<<<"s", "h", "a", "3", "-", "2", "5", "6">>, "sha3-256">>,
    <<<<"r", "s", "a", "-", "s", "h", "a", "3", "-", "2", "5", "6">>, "sha3-256">>,
    <<<<"2", ".", "1", "6", ".", "8", "4", "0", ".", "1", ".", "1", "0", "1", ".", "3", ".", "4", ".", "2", ".", "8">>, "sha3-256">>,
    <<<<"i", "d", "-", "r", "s", "a", "s", "s", "a", "-", "p", "k", "c", "s", "1", "-", "v", "1", "_", "5", "-", "w", "i", "t", "h", "-", "s", "h", "a", "3", "-", "2", "5", "6">>, "sha3-256">>,
    <<<<"s", "h", "a", "3", "-", "3", "8", "4">>, "sha3-384">>,
    <<<<"r", "s", "a", "-", "s", "h", "a", "3", "-", "3", "8", "4">>, "sha3-384">>,
    <<<<"2", ".", "1", "6", ".", "8", "4", "0", ".", "1", ".", "1", "0", "1", ".", "3", ".", "4", ".", "2", ".", "9">>, "sha3-384">>,
    <<<<"i", "d", "-", "r", "s", "a", "s", "s", "a", "-", "p", "k", "c", "s", "1", "-", "v", "1", "_", "5", "-", "w", "i", "t", "h", "-", "s", "h", "a", "3", "-", "3", "8", "4">>, "sha3-384">>,
    <<<<"s", "h", "a", "3", "-", "5", "1", "2">>, "sha3-512">>,
    <<<<"r", "s", "a", "-", "s", "h", "a", "3", "-", "5", "1", "2">>, "sha3-512">>,
    <<<<"2", ".", "1", "6", ".", "8", "4", "0", ".", "1", ".", "1", "0", "1", ".", "3", ".", "4", ".", "2", ".", "1", "0">>, "sha3-512">>,
    <<<<"i", "d", "-", "r", "s", "a", "s", "s", "a", "-", "p", "k", "c", "s", "1", "-", "v", "1", "_", "5", "-", "w", "i", "t", "h", "-", "s", "h", "a", "3", "-", "5", "1", "2">>, "sha3-512">>,
    <<<<"s", "h", "a", "3", "8", "4">>, "sha384">>,
    <<<<"s", "h", "a", "-", "3", "8", "4">>, "sha384">>,
    <<<<"s", "h", "a", "2", "-", "3", "8", "4">>, "sha384">>,
    <<<<"r", "s", "a", "-", "s", "h", "a", "3", "8", "4">>, "sha384">>,
    <<<<"2", ".", "1", "6", ".", "8", "4", "0", ".", "1", ".", "1", "0", "1", ".", "3", ".", "4", ".", "2", ".", "2">>, "sha384">>,
    <<<<"s", "h", "a", "3", "8", "4", "w", "i", "t", "h", "r", "s", "a", "e", "n", "c", "r", "y", "p", "t", "i", "o", "n">>, "sha384">>,
    <<<<"s", "h", "a", "5", "1", "2">>, "sha512">>,
    <<<<"s", "h", "a", "-", "5", "1", "2">>, "sha512">>,
    <<<<"s", "h", "a", "2", "-", "5", "1", "2">>, "sha512">>,
    <<<<"r", "s", "a", "-", "s", "h", "a", "5", "1", "2">>, "sha512">>,
    <<<<"2", ".", "1", "6", ".", "8", "4", "0", ".", "1", ".", "1", "0", "1", ".", "3", ".", "4", ".", "2", ".", "3">>, "sha512">>,
    <<<<"s", "h", "a", "5", "1", "2", "w", "i", "t", "h", "r", "s", "a", "e", "n", "c", "r", "y", "p", "t", "i", "o", "n">>, "sha512">>,
    <<<<"s", "h", "a", "5", "1", "2", "-", "2", "2", "4">>, "sha512-224">>,
    <<<<"s", "h", "a", "-", "5", "1", "2", "/", "2", "2", "4">>, "sha512-224">>,
    <<<<"s", "h", "a", "2", "-", "5", "1", "2", "/", "2", "2", "4">>, "sha512-224">>,
    <<<<"r", "s", "a", "-", "s", "h", "a", "5", "1", "2", "/", "2", "2", "4">>, "sha512-224">>,
    <<<<"2", ".", "1", "6", ".", "8", "4", "0", ".", "1", ".", "1", "0", "1", ".", "3", ".", "4", ".", "2", ".", "5">>, "sha512-224">>,
    <<<<"s", "h", "a", "5", "1", "2", "-", "2", "2", "4", "w", "i", "t", "h", "r", "s", "a", "e", "n", "c", "r", "y", "p", "t", "i", "o", "n">>, "sha512-224">>,
    <<<<"s", "h", "a", "5", "1", "2", "-", "2", "5", "6">>, "sha512-256">>,
    <<<<"s", "h", "a", "-", "5", "1", "2", "/", "2", "5", "6">>, "sha512-256">>,
    <<<<"s", "h", "a", "2", "-", "5", "1", "2", "/", "2", "5", "6">>, "sha512-256">>,
    <<<<"r", "s", "a", "-", "s", "h", "a", "5", "1", "2", "/", "2", "5", "6">>, "sha512-256">>,
    <<<<"2", ".", "1", "6", ".", "8", "4", "0", ".", "1", ".", "1", "0", "1", ".", "3", ".", "4", ".", "2", ".", "6">>, "sha512-256">>,
    <<<<"s", "h", "a", "5", "1", "2", "-", "2", "5", "6", "w", "i", "t", "h", "r", "s", "a", "e", "n", "c", "r", "y", "p", "t", "i", "o", "n">>, "sha512-256">>,
    <<<<"s", "m", "3">>, "sm3">>,
    <<<<"r", "s", "a", "-", "s", "m", "3">>, "sm3">>,
    <<<<"1", ".", "2", ".", "1", "5", "6", ".", "1", "0", "1", "9", "7", ".", "1", ".", "4", "0", "1">>, "sm3">>,
    <<<<"s", "m", "3", "w", "i", "t", "h", "r", "s", "a", "e", "n", "c", "r", "y", "p", "t", "i", "o", "n">>, "sm3">> }

\* the header's method goes to crypto.createHmac unfiltered: names are looked
\* up without case, and createHmac throws for every other name (md4, shake128,
\* the empty name, ...)
Algorithms == {e[1] : e \in DigestTable}

\* the digest a name createHmac accepts stands for
DigestOf == [name \in Algorithms |-> (CHOOSE e \in DigestTable : e[1] = name)[2]]

DigestName(method) == DigestOf[FoldAll(method)]

\* crypto.createHmac(method, key).update(buf).digest('hex')
HexDigest(method, key, buf) == <<"hmac", DigestName(method), key, buf>>

\* the verify callback: "ok", or how it failed
Verify(signature, buf) ==
  IF ~IsSome(signature) \/ Val(signature) = <<>> THEN "no-signature"
  ELSE LET elements == Split(Val(signature), <<"=">>)
           method == elements[1]
           hash == At(elements, 1)
       IN IF FoldAll(method) \notin Algorithms THEN "bad-algorithm"
          ELSE IF hash /= Some(HexDigest(method, APP_SECRET, buf))
               THEN "invalid-signature"
               ELSE "ok"

\* the response state after the body parser ran the verify callback
AfterVerify(res, verdict) ==
  CASE verdict = "ok" -> res
    [] verdict = "invalid-signature" ->
         OnError(ResSend(res, 403, "Invalid signature"), 403)
    [] OTHER -> OnError(res, 403)

(***************************************************************************)
(* GET /webhook: the subscription handshake.                               *)
(***************************************************************************)
LogEntry(msg, r, k) == [msg |-> msg, req |-> r, pos |-> k]

\* a handshake that accepts when either parameter matches
GetWebhookEither(query, res) ==
  IF query.mode = Some("subscribe") \/ query.verifyToken = Some(VALIDATION_TOKEN)
  THEN ResSend(res, 200, IF IsSome(query.challenge) THEN Val(query.challenge) ELSE "")
  ELSE ResSend(res, 403, "Mode/verification token doesn't match")

\* req.query values are optional strings; res.send(undefined) sends no body
GetWebhook(query, res) ==
  IF query.mode = Some("subscribe") /\ query.verifyToken = Some(VALIDATION_TOKEN)
  THEN ResSend(res, 200, IF IsSome(query.challenge) THEN Val(query.challenge) ELSE "")
  ELSE ResSend(res, 403, "Mode/verification token doesn't match")

Get(query) ==
  /\ Len(http) < MaxRequests
  /\ LET r == Len(http) + 1
         res == GetWebhook(query, NewRes)
     IN /\ http' = Append(http, [route |-> "GET", query |-> query, res |-> res,
                                  visited |-> <<>>, hids |-> <<>>])
        /\ log' = IF Val(res.sent).status = 403
                  THEN log \cup {LogEntry("Mode/verification token doesn't match", r, 0)}
                  ELSE log
  /\ UNCHANGED <<handlers, store, outbox>>

(***************************************************************************)
(* POST /webhook: event delivery.                                          *)
(***************************************************************************)
\* a call of an outbound API, as the handler issues it
Call(api, psid, action, text, lang, locale) ==
  [api |-> api, psid |-> psid, action |-> action, text |-> text,
   lang |-> lang, locale |-> locale]

\* send(senderID, null, action): an indicator
SendAction(psid, action) == Call("send", psid, action, None, None, "")

\* the handler of an event up to its first await: the mark_seen call is issued
\* in the turn that dispatches the event
StartHandler(fn, event, r, k) ==
  [fn |-> fn, event |-> event, req |-> r, pos |-> k, pc |-> "mark_seen",
   user |-> None, response |-> None,
   calls |-> <<SendAction(event.sender, "mark_seen")>>]

\* the body of the inner forEach callback for one event; st carries the
\* response object, the handlers started, the log and what the loop visited
OnEvent(event, r, st) ==
  LET k == Len(st.visited) + 1
  IN IF IsSome(event.message)
     THEN [st EXCEPT !.visited = Append(@, "message"),
                     !.started = Append(@, StartHandler("receivedMessage", event, r, k))]
     ELSE IF IsSome(event.postback)
     THEN [st EXCEPT !.visited = Append(@, "postback"),
                     !.started = Append(@, StartHandler("receivedPostback", event, r, k))]
     ELSE [st EXCEPT !.visited = Append(@, "unknown"),
                     !.log = @ \cup {LogEntry("Unknown/unsupported event", r, k)},
                     !.res = ResSend(@, 403, "Unknown/unsupported event")]

\* a loop that walks the events from the last to the first
RECURSIVE ForEachEventBackwards(_, _, _, _)
ForEachEventBackwards(messaging, i, r, st) ==
  IF i > Len(messaging) \/ st.res.threw THEN st
  ELSE ForEachEventBackwards(messaging, i + 1, r,
                             OnEvent(messaging[Len(messaging) + 1 - i], r, st))

\* entry.messaging.forEach: `return false` leaves the callback only, so the
\* loop goes on to the next event; an exception ends it
RECURSIVE ForEachEvent(_, _, _, _)
ForEachEvent(messaging, i, r, st) ==
  IF i > Len(messaging) \/ st.res.threw THEN st
  ELSE ForEachEvent(messaging, i + 1, r, OnEvent(messaging[i], r, st))

\* data.entry.forEach
RECURSIVE ForEachEntry(_, _, _, _)
ForEachEntry(entry, j, r, st) ==
  IF j > Len(entry) \/ st.res.threw THEN st
  ELSE ForEachEntry(entry, j + 1, r, ForEachEvent(entry[j], 1, r, st))

\* an object test that lets every delivery through
IsPageAlways(data) == TRUE

\* data.object === 'page'
IsPage(data) == data.object = "page"

\* a route handler that answers only when it started no handler, as one that
\* awaits the handlers it started would at the end of the turn
PostWebhookAwaiting(data, r, res) ==
  LET st0 == [res |-> res, started |-> <<>>, log |-> {}, visited |-> <<>>]
  IN IF ~IsPage(data)
     THEN [st0 EXCEPT !.log = {LogEntry("Object is not a page", r, 0)},
                      !.res = ResSend(@, 403, "An error has occurred")]
     ELSE LET st == ForEachEntry(data.entry, 1, r, st0)
          IN IF st.res.threw THEN [st EXCEPT !.res = OnError(@, 500)]
             ELSE IF st.started /= <<>> THEN st
             ELSE LET fin == ResSend(st.res, 200, "Success")
                  IN [st EXCEPT !.res = IF fin.threw THEN OnError(fin, 500) ELSE fin]

\* the route handler
PostWebhook(data, r, res) ==
  LET st0 == [res |-> res, started |-> <<>>, log |-> {}, visited |-> <<>>]
  IN IF ~IsPage(data)
     THEN [st0 EXCEPT !.log = {LogEntry("Object is not a page", r, 0)},
                      !.res = ResSend(@, 403, "An error has occurred")]
     ELSE LET st == ForEachEntry(data.entry, 1, r, st0)
          IN IF st.res.threw THEN [st EXCEPT !.res = OnError(@, 500)]
             ELSE LET fin == ResSend(st.res, 200, "Success")
                  IN [st EXCEPT !.res = IF fin.threw THEN OnError(fin, 500) ELSE fin]

\* the middleware chain and the route, for one request
ServePost(req, r) ==
  LET verdict == Verify(req.signature, req.raw)
      res == AfterVerify(NewRes, verdict)
  IN IF verdict = "ok" THEN PostWebhook(req.body, r, res)
     ELSE [res |-> res, started |-> <<>>, visited |-> <<>>,
           log |-> IF verdict = "invalid-signature"
                   THEN {LogEntry("Invalid signature", r, 0)} ELSE {}]

\* the handler ids of the events the loop visited: 0 for an unknown event
RECURSIVE HandlerIds(_, _)
HandlerIds(visited, next) ==
  IF visited = <<>> THEN <<>>
  ELSE IF Head(visited) = "unknown" THEN <<0>> \o HandlerIds(Tail(visited), next)
       ELSE <<next>> \o HandlerIds(Tail(visited), next + 1)

\* a delivery is served in one turn, while there is room for it and for the
\* handlers it starts
PostWithin(req, requests, running) ==
  /\ Len(http) < requests
  /\ LET r == Len(http) + 1
         out == ServePost(req, r)
     IN /\ Len(handlers) + Len(out.started) <= running
        /\ http' = Append(http, [route |-> "POST", req |-> req, res |-> out.res,
                                  visited |-> out.visited,
                                  hids |-> HandlerIds(out.visited, Len(handlers) + 1)])
        /\ handlers' = handlers \o out.started
        /\ log' = log \cup out.log
  /\ UNCHANGED <<store, outbox>>

Post(req) == PostWithin(req, MaxRequests, MaxHandlers)

(***************************************************************************)
(* Command parsing in receivedMessage (the two regular expressions) and in *)
(* receivedPostback (the split of the title).                              *)
(***************************************************************************)

\* `.` matches any character but a line terminator: LF, CR, LINE SEPARATOR
\* and PARAGRAPH SEPARATOR (the last two written by their code points)
LineTerminators == {"\n", "\r", "U+2028", "U+2029"}

\* x? : from every position of P, stay or step over one x
Optional(s, x, P) == P \cup {i + 1 : i \in {j \in P : j <= Len(s) /\ Fold(s[j]) = x}}

\* a literal word: the positions after w, for every position of P where w starts
Literal(s, w, P) ==
  {i + Len(w) : i \in {j \in P : /\ j + Len(w) - 1 <= Len(s)
                                /\ \A n \in 1..Len(w) : Fold(s[j + n - 1]) = w[n]}}

\* the positions after -?-?
AfterDashes(s) == Optional(s, "-", Optional(s, "-", {1}))

\* the help pattern without its anchors: "help" anywhere in the text
HelpMatchAnywhere(text) ==
  \E i \in 1..Len(text) : Literal(text, <<"h", "e", "l", "p">>, {i}) /= {}

\* text.match(/^(-?-?help)$/i) !== null
HelpMatch(text) == (Len(text) + 1) \in Literal(text, <<"h", "e", "l", "p">>, AfterDashes(text))

\* the positions where group 3 of /^(-?-?lang(uage)? (.+))$/i may start
LangArgStarts(text) ==
  LET lang == Literal(text, <<"l", "a", "n", "g">>, AfterDashes(text))
      word == lang \cup Literal(text, <<"u", "a", "g", "e">>, lang)
  IN {i \in Literal(text, <<" ">>, word) :
        /\ i <= Len(text)
        /\ \A n \in i..Len(text) : text[n] \notin LineTerminators}

\* langRegex.exec(text): group 3 of the match, None when there is no match
LangExec(text) ==
  LET starts == LangArgStarts(text)
  IN IF starts = {} THEN None
     ELSE Some(SubSeq(text, CHOOSE i \in starts : \A j \in starts : j <= i, Len(text)))

\* a split that takes the first segment
TitleLanguageFirst(title) == At(Split(title, <<"-", "-", "l", "a", "n", "g", "u", "a", "g", "e", " ">>), 0)

\* postback.title.split('--language ')[1]
TitleLanguage(title) == At(Split(title, <<"-", "-", "l", "a", "n", "g", "u", "a", "g", "e", " ">>), 1)

(***************************************************************************)
(* The collaborators the handlers call: the user store, the language and   *)
(* translation adapter and the locale strings.                             *)
(***************************************************************************)
Users == {"u1"}

DefaultLanguage == <<"e", "n">>
DefaultLocale == "en_US"
SupportedLanguages == {<<"e", "n">>, <<"f", "r">>, <<"d", "e">>}

\* a text response
Reply(tag, locale, text, lang) == [tag |-> tag, locale |-> locale, text |-> text, lang |-> lang]

\* localeStrings(locale, key)
localeStrings(locale, key) == Reply(key, locale, None, None)

\* getHelp(locale)
getHelp(locale) == localeStrings(locale, "help")

\* the record addUser creates
NewUser(psid) == [psid |-> psid, language |-> DefaultLanguage, locale |-> DefaultLocale]

\* changeLanguage accepts the code when it is one of the supported set
LanguageAccepted(lang) == IsSome(lang) /\ Val(lang) \in SupportedLanguages

\* userDB.addUser: the store holds the record created, with the defaults, under
\* the sender id, its unique key
StoreWithUser(user) == [store EXCEPT ![user.psid] = Some(user)]

\* changeLanguage saving the accepted code in the user's record
StoreWithLanguage(psid, lang) ==
  IF IsSome(store[psid])
  THEN [store EXCEPT ![psid] = Some([Val(@) EXCEPT !.language = lang])]
  ELSE store

\* the string changeLanguage resolves to
changeLanguageReply(lang, locale, saved) ==
  IF saved THEN Reply("language-changed", locale, None, lang)
  ELSE Reply("language-error", locale, None, lang)

\* the string translate resolves to
translateReply(text, language, locale) == Reply("translation", locale, Some(text), Some(language))

(***************************************************************************)
(* The event handlers.  A handler is at the call it awaits (pc); the calls *)
(* it has issued are in `calls`, in the order it issued them.              *)
(***************************************************************************)
Issue(h, pc, call) == [h EXCEPT !.pc = pc, !.calls = Append(@, call)]

\* the target language handed to translate
TranslateTarget(user) == user.language

\* the recipient of the attachments notice and of every other text response
AttachmentsRecipient(h, user) == h.event.sender
ResponseRecipient(h, user) == user.psid

\* await send(psid, response)
IssueSend(h, psid, response) ==
  [Issue(h, "send", Call("send", psid, "", Some(response), None, ""))
     EXCEPT !.response = Some(response)]

\* await changeLanguage(user, language, user.locale)
IssueChangeLanguage(h, user, language) ==
  Issue(h, "changeLanguage", Call("changeLanguage", user.psid, "", None, language, user.locale))

\* an attachments test that never fires
HasAttachmentsNever(message) == FALSE

\* a message carries attachments
HasAttachments(message) == IsSome(message.attachments)

\* receivedMessage from the attachments test on (lines 192-215), up to the next
\* await; text.match on a missing text throws
MessageBranch(h, user) ==
  LET message == Val(h.event.message)
      text == message.text
  IN IF HasAttachments(message)
     THEN IssueSend(h, AttachmentsRecipient(h, user), localeStrings(user.locale, "attachments"))
     ELSE IF ~IsSome(text) THEN [h EXCEPT !.pc = "rejected"]
     ELSE IF HelpMatch(Val(text))
     THEN IssueSend(h, ResponseRecipient(h, user), getHelp(user.locale))
     ELSE IF IsSome(LangExec(Val(text)))
     THEN IssueChangeLanguage(h, user, LangExec(Val(text)))
     ELSE Issue(h, "translate",
                Call("translate", user.psid, "", text, Some(TranslateTarget(user)), user.locale))

\* receivedPostback from the switch on (lines 155-172), up to the next await
PostbackBranch(h, user) ==
  LET postback == Val(h.event.postback)
  IN CASE postback.payload \in {"get_started", "get_help"} ->
            IssueSend(h, ResponseRecipient(h, user), getHelp(user.locale))
       [] postback.payload = "change_language" ->
            IssueChangeLanguage(h, user, TitleLanguage(postback.title))
       [] OTHER -> [h EXCEPT !.pc = "done"]

\* the handler once `user` is bound
WithUser(h, user) ==
  LET h1 == [h EXCEPT !.user = Some(user)]
  IN IF h.fn = "receivedMessage" THEN MessageBranch(h1, user) ELSE PostbackBranch(h1, user)

\* what the turn that binds `user` writes to the log
BranchLog(h, after) ==
  IF after.pc = "rejected"
  THEN {LogEntry("Unhandled Promise rejection", h.req, h.pos)}
  ELSE IF after.pc = "done"
  THEN {LogEntry("Unknown/unsupported payload", h.req, h.pos)}
  ELSE {}

Pending(i, pc) == i \in 1..Len(handlers) /\ handlers[i].pc = pc

\* a handler that does not await typing_on: the lookup is issued with it
MarkSeenDoneNoAwait(i) ==
  /\ Pending(i, "mark_seen")
  /\ handlers' = [handlers EXCEPT ![i] =
                    Issue(Issue(@, "typing_on", SendAction(@.event.sender, "typing_on")),
                          "getUser", Call("getUser", @.event.sender, "", None, None, ""))]
  /\ UNCHANGED <<http, store, outbox, log>>

\* await send(senderID, null, 'mark_seen') resolves; typing_on is issued
MarkSeenDone(i) ==
  /\ Pending(i, "mark_seen")
  /\ handlers' = [handlers EXCEPT ![i] =
                    Issue(@, "typing_on", SendAction(@.event.sender, "typing_on"))]
  /\ UNCHANGED <<http, store, outbox, log>>

\* await send(senderID, null, 'typing_on') resolves; getUser is issued
TypingOnDone(i) ==
  /\ Pending(i, "typing_on")
  /\ handlers' = [handlers EXCEPT ![i] =
                    Issue(@, "getUser", Call("getUser", @.event.sender, "", None, None, ""))]
  /\ UNCHANGED <<http, store, outbox, log>>

\* await userDB.getUser(senderID) resolves: with the record, or with nothing,
\* and then addUser is issued
GetUserDone(i) ==
  /\ Pending(i, "getUser")
  /\ LET h == handlers[i]
         found == store[h.event.sender]
         after == IF IsSome(found) THEN WithUser(h, Val(found))
                  ELSE Issue(h, "addUser", Call("addUser", h.event.sender, "", None, None, ""))
     IN /\ handlers' = [handlers EXCEPT ![i] = after]
        /\ log' = log \cup (IF IsSome(found) THEN BranchLog(h, after) ELSE {})
  /\ UNCHANGED <<http, store, outbox>>

\* await userDB.addUser(senderID) resolves with the record it created.  For a
\* sender id that has got a record in the meantime the call either fails
\* (Reject) or resolves like this, the record being created anew.
AddUserDone(i) ==
  /\ Pending(i, "addUser")
  /\ LET h == handlers[i]
         user == NewUser(h.event.sender)
         after == WithUser(h, user)
     IN /\ store' = StoreWithUser(user)
        /\ handlers' = [handlers EXCEPT ![i] = after]
        /\ log' = log \cup BranchLog(h, after)
  /\ UNCHANGED <<http, outbox>>

\* await changeLanguage(...) resolves: an accepted code is saved in the store
\* unless the save fails (saved = FALSE); the reply is sent next
ChangeLanguageDone(i, saved) ==
  /\ Pending(i, "changeLanguage")
  /\ LET h == handlers[i]
         user == Val(h.user)
         call == h.calls[Len(h.calls)]
         ok == saved /\ LanguageAccepted(call.lang)
     IN /\ saved \/ LanguageAccepted(call.lang)
        /\ store' = IF ok THEN StoreWithLanguage(user.psid, Val(call.lang)) ELSE store
        /\ handlers' = [handlers EXCEPT ![i] =
                          IssueSend(h, ResponseRecipient(h, user),
                                    changeLanguageReply(call.lang, call.locale, ok))]
  /\ UNCHANGED <<http, outbox, log>>

\* await translator.translate(...) resolves; the translation is sent next
TranslateDone(i) ==
  /\ Pending(i, "translate")
  /\ LET h == handlers[i]
         user == Val(h.user)
         call == h.calls[Len(h.calls)]
     IN handlers' = [handlers EXCEPT ![i] =
                       IssueSend(h, ResponseRecipient(h, user),
                                 translateReply(Val(call.text), Val(call.lang), call.locale))]
  /\ UNCHANGED <<http, store, outbox, log>>

\* await send(psid, response) resolves: the text reached the user
SendDone(i) ==
  /\ Pending(i, "send")
  /\ LET h == handlers[i]
         call == h.calls[Len(h.calls)]
     IN outbox' = Append(outbox, [to |-> call.psid, body |-> Val(call.text), handler |-> i])
  /\ handlers' = [handlers EXCEPT ![i].pc = "done"]
  /\ UNCHANGED <<http, store, log>>

\* the awaited call rejects: the async function ends there, and the process-wide
\* unhandledRejection handler logs the error.  Every awaited call is treated
\* alike (changeLanguage is specified to resolve always; the handler has no
\* catch for it either).
Rejectable == {"mark_seen", "typing_on", "getUser", "addUser", "changeLanguage", "translate", "send"}

\* a handler that issues the failed call a second time
RejectAndRetry(i) ==
  /\ i \in 1..Len(handlers)
  /\ handlers[i].pc \in Rejectable
  /\ handlers' = [handlers EXCEPT ![i].calls = Append(@, @[Len(@)])]
  /\ log' = log \cup {LogEntry("Unhandled Promise rejection", handlers[i].req, handlers[i].pos)}
  /\ UNCHANGED <<http, store, outbox>>

Reject(i) ==
  /\ i \in 1..Len(handlers)
  /\ handlers[i].pc \in Rejectable
  /\ handlers' = [handlers EXCEPT ![i].pc = "rejected"]
  /\ log' = log \cup {LogEntry("Unhandled Promise rejection", handlers[i].req, handlers[i].pos)}
  /\ UNCHANGED <<http, store, outbox>>

(***************************************************************************)
(* Inputs.                                                                 *)
(***************************************************************************)
Message(text, attachments) ==
  [sender |-> "u1", message |-> Some([text |-> text, attachments |-> attachments]),
   postback |-> None]

Postback(payload, title) ==
  [sender |-> "u1", message |-> None,
   postback |-> Some([payload |-> payload, title |-> title])]

\* an event that is neither a message nor a postback (a delivery receipt, ...)
OtherEvent == [sender |-> "u1", message |-> None, postback |-> None]

\* the x-hub-signature header a sender that knows `key` computes for `raw`
Signature(method, key, raw) == Some(method \o <<"=">> \o HexDigest(method, key, raw))

Delivery(signature, object, entry) ==
  [signature |-> signature, raw |-> "body",
   body |-> [object |-> object, entry |-> entry]]

Signed(entry) == Delivery(Signature(<<"s", "h", "a", "1">>, APP_SECRET, "body"), "page", entry)

\* all sequences of at most n elements of S
SeqsUpTo(S, n) == UNION {[1..m -> S] : m \in 0..n}

CoreEvents ==
  { Message(Some(<<"h", "i">>), None),
    Message(Some(<<"l", "a", "n", "g", " ", "f", "r">>), None),
    Message(Some(<<"h", "e", "l", "p">>), None),
    Message(Some(<<"l", "a", "n", "g", " ", "f", "r">>), Some("image")),
    Message(None, Some("image")),
    Message(None, None),
    Postback("get_help", <<"H", "e", "l", "p">>),
    Postback("change_language", <<"-", "-", "l", "a", "n", "g", "u", "a", "g", "e", " ", "d", "e">>),
    Postback("other", <<"H", "e", "l", "p">>),
    OtherEvent }

CoreRequests ==
  {Signed(<<messaging>>) : messaging \in SeqsUpTo(CoreEvents, MaxEvents)}
    \cup {Delivery(None, "page", <<<<Message(Some(<<"h", "i">>), None)>>>>),
          Delivery(Signature(<<"s", "h", "a", "1">>, APP_SECRET, "body"), "user",
                   <<<<Message(Some(<<"h", "i">>), None)>>>>)}

(***************************************************************************)
(* The server: deliveries arrive, handlers advance.                        *)
(***************************************************************************)
ExistingUser == [psid |-> "u1", language |-> <<"d", "e">>, locale |-> "fr_FR"]

Init ==
  /\ http = <<>>
  /\ handlers = <<>>
  /\ store \in {[u \in Users |-> None], [u \in Users |-> Some(ExistingUser)]}
  /\ outbox = <<>>
  /\ log = {}

Next ==
  \/ \E req \in CoreRequests : Post(req)
  \/ \E i \in 1..Len(handlers) : MarkSeenDone(i)
  \/ \E i \in 1..Len(handlers) : TypingOnDone(i)
  \/ \E i \in 1..Len(handlers) : GetUserDone(i)
  \/ \E i \in 1..Len(handlers) : AddUserDone(i)
  \/ \E i \in 1..Len(handlers), saved \in BOOLEAN : ChangeLanguageDone(i, saved)
  \/ \E i \in 1..Len(handlers) : TranslateDone(i)
  \/ \E i \in 1..Len(handlers) : SendDone(i)
  \/ \E i \in 1..Len(handlers) : Reject(i)

Spec == Init /\ [][Next]_vars

(***************************************************************************)
(* The HTTP layer alone: requests of every shape are served, and the       *)
(* handlers they start stay at their first await.  The route handlers read *)
(* nothing the event handlers write, so what holds of the responses here   *)
(* holds of them in Spec.                                                  *)
(***************************************************************************)
Queries ==
  [mode : {None, Some("subscribe"), Some("unsubscribe")},
   verifyToken : {None, Some(VALIDATION_TOKEN), Some("guess")},
   challenge : {None, Some("1158201444"), Some("challenge")}]

HttpSignatures ==
  { None,
    Some(<<>>),
    Signature(<<"s", "h", "a", "1">>, APP_SECRET, "body"),
    Signature(<<"s", "h", "a", "2", "5", "6">>, APP_SECRET, "body"),
    Signature(<<"s", "h", "a", "1">>, "guess", "body"),
    Signature(<<"s", "h", "a", "1">>, APP_SECRET, "other body"),
    Some(<<"m", "d", "4", "=", "hmac", "md4", APP_SECRET, "body">>),
    Signature(<<"s", "h", "a", "5", "1", "2">>, APP_SECRET, "body"),
    Signature(<<"m", "d", "5">>, APP_SECRET, "body"),
    Signature(<<"S", "H", "A", "1">>, APP_SECRET, "body"),
    Signature(<<"S", "h", "a", "1">>, APP_SECRET, "body"),
    Signature(<<"s", "h", "a", "-", "1">>, APP_SECRET, "body"),
    Signature(<<"R", "S", "A", "-", "S", "H", "A", "1">>, APP_SECRET, "body"),
    Signature(<<"s", "h", "a", "2", "2", "4">>, APP_SECRET, "body"),
    Signature(<<"S", "H", "A", "2", "5", "6">>, APP_SECRET, "body"),
    Signature(<<"s", "h", "a", "3", "-", "2", "5", "6">>, APP_SECRET, "body"),
    Signature(<<"r", "i", "p", "e", "m", "d", "1", "6", "0">>, APP_SECRET, "body"),
    Signature(<<"M", "D", "5">>, "guess", "body"),
    Some(<<"m", "d", "5">> \o <<"=">> \o HexDigest(<<"M", "D", "5">>, APP_SECRET, "body")),
    Some(<<"S", "H", "A", "1">> \o <<"=">> \o HexDigest(<<"s", "h", "a", "2", "5", "6">>, APP_SECRET, "body")),
    Signature(<<"s", "h", "a", "1", "W", "i", "t", "h", "R", "S", "A", "E", "n", "c", "r", "y", "p", "t", "i", "o", "n">>, APP_SECRET, "body"),
    Signature(<<"R", "S", "A", "-", "S", "H", "A", "3", "-", "2", "5", "6">>, APP_SECRET, "body"),
    Signature(<<"s", "h", "a", "-", "5", "1", "2", "/", "2", "5", "6">>, APP_SECRET, "body"),
    Signature(<<"S", "H", "A", "2", "-", "5", "1", "2", "/", "2", "5", "6">>, APP_SECRET, "body"),
    Signature(<<"r", "i", "p", "e", "m", "d", "-", "1", "6", "0">>, APP_SECRET, "body"),
    Signature(<<"1", ".", "3", ".", "1", "4", ".", "3", ".", "2", ".", "2", "6">>, APP_SECRET, "body"),
    Signature(<<"2", ".", "1", "6", ".", "8", "4", "0", ".", "1", ".", "1", "0", "1", ".", "3", ".", "4", ".", "2", ".", "1">>, APP_SECRET, "body"),
    Signature(<<"i", "d", "-", "r", "s", "a", "s", "s", "a", "-", "p", "k", "c", "s", "1", "-", "v", "1", "_", "5", "-", "w", "i", "t", "h", "-", "s", "h", "a", "3", "-", "2", "5", "6">>, APP_SECRET, "body"),
    Signature(<<"R", "S", "A", "-", "S", "H", "A", "1", "-", "2">>, APP_SECRET, "body"),
    Signature(<<"B", "L", "A", "K", "E", "2", "b", "5", "1", "2">>, APP_SECRET, "body"),
    Signature(<<"s", "m", "3", "W", "i", "t", "h", "R", "S", "A", "E", "n", "c", "r", "y", "p", "t", "i", "o", "n">>, APP_SECRET, "body"),
    Signature(<<"s", "h", "a", "2", "5", "6", "W", "i", "t", "h", "R", "S", "A", "E", "n", "c", "r", "y", "p", "t", "i", "o", "n">>, "guess", "body"),
    Some(<<"1", ".", "3", ".", "1", "4", ".", "3", ".", "2", ".", "2", "6">> \o <<"=">> \o HexDigest(<<"s", "h", "a", "1", "W", "i", "t", "h", "R", "S", "A", "E", "n", "c", "r", "y", "p", "t", "i", "o", "n">>, APP_SECRET, "body")),
    Some(<<"s", "h", "a", "-", "5", "1", "2", "/", "2", "5", "6">> \o <<"=">> \o HexDigest(<<"s", "h", "a", "5", "1", "2">>, APP_SECRET, "body")),
    Some(<<"s", "h", "a", "k", "e", "1", "2", "8">> \o <<"=", "hmac", "shake128", APP_SECRET, "body">>),
    Some(<<"S", "H", "A", "K", "E", "-", "2", "5", "6">> \o <<"=", "hmac", "shake256", APP_SECRET, "body">>),
    Some(<<"w", "h", "i", "r", "l", "p", "o", "o", "l">> \o <<"=", "hmac", "whirlpool", APP_SECRET, "body">>),
    Some(<<"s", "h", "a", "1", "W", "i", "t", "h", "R", "S", "A">> \o <<"=", "hmac", "sha1", APP_SECRET, "body">>),
    Some(<<"1", ".", "2", ".", "8", "4", "0", ".", "1", "1", "3", "5", "4", "9", ".", "1", ".", "1", ".", "5">> \o <<"=", "hmac", "sha1", APP_SECRET, "body">>),
    Some(<<"s", "h", "a">> \o <<"=", "hmac", "sha1", APP_SECRET, "body">>),
    Some(<<"=", "abc">>),
    Some(Val(Signature(<<"s", "h", "a", "1">>, APP_SECRET, "body")) \o <<"=", "x">>),
    Some(<<"s", "h", "a", "1">>),
    Some(<<"s", "h", "a", "1">> \o <<"=">>),
    Some(HexDigest(<<"s", "h", "a", "1">>, APP_SECRET, "body")) }

HttpEvents == {Message(Some(<<"h", "i">>), None), Postback("get_help", <<"H", "e", "l", "p">>), OtherEvent}

\* an event that is a message and a postback at once
BothEvent ==
  [sender |-> "u1", message |-> Some([text |-> Some(<<"h", "i">>), attachments |-> None]),
   postback |-> Some([payload |-> "get_help", title |-> <<"H", "e", "l", "p">>])]

RECURSIVE Flatten(_)
Flatten(entry) == IF entry = <<>> THEN <<>> ELSE Head(entry) \o Flatten(Tail(entry))

\* the ways to cut the events s into at most m non-empty entries
RECURSIVE Cuts(_, _)
Cuts(s, m) ==
  IF s = <<>> THEN {<<>>}
  ELSE IF m = 0 THEN {}
  ELSE UNION {{<<SubSeq(s, 1, n)>> \o rest : rest \in Cuts(SubSeq(s, n + 1, Len(s)), m - 1)} :
                n \in 1..Len(s)}

HttpEntries ==
  UNION {Cuts(s, MaxEntries) : s \in SeqsUpTo(HttpEvents, MaxEvents)}
    \cup {<<<<>>>>, <<<<BothEvent>>>>, <<<<>>, <<OtherEvent, BothEvent>>>>}

OneMessage == <<<<Message(Some(<<"h", "i">>), None)>>>>

HttpRequests ==
  {Delivery(sig, object, OneMessage) : sig \in HttpSignatures, object \in {"page", "user"}}
    \cup {Signed(entry) : entry \in HttpEntries}
    \cup {Delivery(Signature(<<"s", "h", "a", "1">>, APP_SECRET, "body"), "user", entry) :
            entry \in {<<>>, OneMessage, <<<<OtherEvent>>, <<BothEvent>>>>}}
    \cup {Delivery(Signature(<<"s", "h", "a", "2", "5", "6">>, APP_SECRET, "body"), "instagram", OneMessage)}

\* the store plays no part in the HTTP layer
InitHttp == Init /\ store = [u \in Users |-> None]

NextHttp ==
  \/ \E query \in Queries : Get(query)
  \/ \E req \in HttpRequests : Post(req)

SpecHttp == InitHttp /\ [][NextHttp]_vars

(***************************************************************************)
(* Properties of the HTTP layer.                                           *)
(***************************************************************************)
Posts == {r \in 1..Len(http) : http[r].route = "POST"}
Gets == {r \in 1..Len(http) : http[r].route = "GET"}

\* the events of delivery r, in delivery order
EventsOf(r) == Flatten(http[r].req.body.entry)

\* event k of delivery r was handed to receivedMessage or receivedPostback
Dispatched(r, k) == k <= Len(http[r].hids) /\ http[r].hids[k] /= 0

\* the handlers delivery r started
HandlersOf(r) == {i \in 1..Len(handlers) : handlers[i].req = r}

\* the status that went on the wire for request r
StatusOf(r) == Val(http[r].res.sent).status

IsUnknownKind(event) == ~IsSome(event.message) /\ ~IsSome(event.postback)

\* the header is `<algorithm>=<digest>`: a name of a digest, in any case, an
\* "=", and then nothing but the keyed digest of the raw body under the
\* application secret and that digest
SignatureMatches(req) ==
  /\ IsSome(req.signature)
  /\ LET header == Val(req.signature)
     IN \E n \in 1..Len(header) :
          LET name == SubSeq(header, 1, n - 1)
          IN /\ header[n] = "="
             /\ FoldAll(name) \in Algorithms
             /\ SubSeq(header, n + 1, Len(header)) = HexDigest(name, APP_SECRET, req.raw)

\* C1: a POST delivery has its events dispatched only when the x-hub-signature
\* header is present and its digest equals the keyed digest of the raw body
\* under the application secret; when the header is absent or the digest
\* differs, the answer is 403 and no handler is invoked.
C1_SignatureGatesDispatch ==
  \A r \in Posts :
    /\ HandlersOf(r) /= {} => SignatureMatches(http[r].req)
    /\ ~SignatureMatches(http[r].req) =>
         /\ IsSome(http[r].res.sent) /\ StatusOf(r) = 403
         /\ HandlersOf(r) = {} /\ http[r].visited = <<>>

\* C2: a GET with hub.mode "subscribe" and the configured verify token is
\* answered 200 with the challenge verbatim as body; every other combination
\* of mode and token, a missing one included, is answered 403.
C2_Handshake ==
  \A r \in Gets :
    LET q == http[r].query
        sent == Val(http[r].res.sent)
    IN /\ http[r].res.attempts = 1
       /\ IF q.mode = Some("subscribe") /\ q.verifyToken = Some(VALIDATION_TOKEN)
          THEN sent.status = 200 /\ (IsSome(q.challenge) => sent.body = Val(q.challenge))
          ELSE sent.status = 403

C2_Witness ==
  \E r \in Gets :
    /\ http[r].query.mode = Some("subscribe")
    /\ http[r].query.verifyToken = Some(VALIDATION_TOKEN)
    /\ Val(http[r].res.sent) = [status |-> 200, body |-> "1158201444"]

\* C3: a POST delivery that passes the signature check gets exactly one HTTP
\* response, whatever events it holds: res.send is called once and never a
\* second time.
C3_OneSendPerDelivery ==
  \A r \in Posts :
    SignatureMatches(http[r].req) => http[r].res.attempts = 1

\* C4: once a delivery holds an event that is neither a message nor a
\* postback, no event after it in the delivery is dispatched.
C4_HaltsAtUnknownEvent ==
  \A r \in Posts :
    \A j \in 1..Len(EventsOf(r)) :
      IsUnknownKind(EventsOf(r)[j]) =>
        \A k \in (j + 1)..Len(EventsOf(r)) : ~Dispatched(r, k)

\* C5: every message or postback event of an accepted delivery is dispatched,
\* whatever happens to its siblings (an unknown kind among them included).
C5_SiblingsAlwaysDispatched ==
  \A r \in Posts :
    (SignatureMatches(http[r].req) /\ http[r].req.body.object = "page") =>
      \A k \in 1..Len(EventsOf(r)) :
        ~IsUnknownKind(EventsOf(r)[k]) => Dispatched(r, k)

\* C6: a POST delivery whose object is not "page" is answered 403 and none of
\* its events is dispatched: no handler runs and no outbound call is made.
C6_NonPageRejected ==
  \A r \in Posts :
    http[r].req.body.object /= "page" =>
      /\ StatusOf(r) = 403
      /\ http[r].visited = <<>>
      /\ HandlersOf(r) = {}
      /\ \A i \in 1..Len(outbox) : handlers[outbox[i].handler].req /= r

C6_Witness ==
  \E r \in Posts :
    /\ SignatureMatches(http[r].req)
    /\ http[r].req.body.object = "user"
    /\ \E k \in 1..Len(EventsOf(r)) : IsSome(EventsOf(r)[k].message)
    /\ Val(http[r].res.sent) = [status |-> 403, body |-> "An error has occurred"]
    /\ http[r].res.attempts = 1

(***************************************************************************)
(* Properties of the event handlers.                                       *)
(***************************************************************************)
Handlers == 1..Len(handlers)

\* the calls handler i has issued so far
CallsOf(i) == {handlers[i].calls[n] : n \in 1..Len(handlers[i].calls)}

\* the text responses handler i has asked the send API to deliver
TextSends(i) == {c \in CallsOf(i) : c.api = "send" /\ IsSome(c.text)}

\* the text responses that reached the user on behalf of handler i
Delivered(i) == {outbox[n].body : n \in {m \in 1..Len(outbox) : outbox[m].handler = i}}

IsMessageHandler(i) == IsSome(handlers[i].event.message)
IsPostbackHandler(i) == ~IsSome(handlers[i].event.message) /\ IsSome(handlers[i].event.postback)

\* C7: a message event that carries attachments never has changeLanguage or
\* translate called for it, whatever its text, and the only text response
\* sent for it is the "attachments" message in the locale of its user.
C7_AttachmentsOnlyNotice ==
  \A i \in Handlers :
    (IsMessageHandler(i) /\ IsSome(Val(handlers[i].event.message).attachments)) =>
      /\ \A c \in CallsOf(i) : c.api \notin {"changeLanguage", "translate"}
      /\ \A c \in TextSends(i) :
           /\ IsSome(store[handlers[i].event.sender])
           /\ Val(c.text) = [tag |-> "attachments", text |-> None, lang |-> None,
                             locale |-> Val(store[handlers[i].event.sender]).locale]
      /\ Delivered(i) \subseteq {Val(c.text) : c \in TextSends(i)}
      /\ Cardinality(TextSends(i)) <= 1

C7_Witness ==
  \E i \in Handlers :
    /\ IsMessageHandler(i)
    /\ Val(handlers[i].event.message) = [text |-> Some(<<"l", "a", "n", "g", " ", "f", "r">>), attachments |-> Some("image")]
    /\ handlers[i].pc = "done"
    /\ Delivered(i) = {[tag |-> "attachments", text |-> None, lang |-> None, locale |-> "fr_FR"]}

KnownPayloads == {"get_started", "get_help", "change_language"}

HasUnknownPayload(i) ==
  IsPostbackHandler(i) /\ Val(handlers[i].event.postback).payload \notin KnownPayloads

\* C8: an event of unknown kind, and a postback whose payload is none of
\* get_started, get_help, change_language, never has a call of the send API made
\* on its behalf, and each such event is logged: an unknown event of a delivery
\* that was let through when the delivery has been served, such a postback once
\* its handler has ended.
C8_NoSendApiCall ==
  /\ \A r \in Posts :
       (SignatureMatches(http[r].req) /\ http[r].req.body.object = "page") =>
         \A k \in 1..Len(EventsOf(r)) :
           IsUnknownKind(EventsOf(r)[k]) =>
             /\ ~Dispatched(r, k)
             /\ LogEntry("Unknown/unsupported event", r, k) \in log
  /\ \A i \in Handlers :
       HasUnknownPayload(i) =>
         /\ \A c \in CallsOf(i) : c.api /= "send"
         /\ handlers[i].pc \in {"done", "rejected"} =>
              LogEntry("Unknown/unsupported payload", handlers[i].req, handlers[i].pos) \in log

(***************************************************************************)
(* The round trip of a language change: a sender with or without a record  *)
(* asks for "fr", alone or next to another message, and writes again once  *)
(* the change has been saved.  "fr" is the only language asked for.        *)
(***************************************************************************)
\* the deliveries and the handlers of a round trip
MaxTurns == 2
MaxTalkers == 3

ChangeCommand == Message(Some(<<"l", "a", "n", "g", " ", "f", "r">>), None)
EarlierMessage == Message(Some(<<"y", "o">>), None)
LaterMessage == Message(Some(<<"h", "i">>), None)

ChangeDeliveries ==
  { Signed(<<<<ChangeCommand>>>>),
    Signed(<<<<ChangeCommand, EarlierMessage>>>>),
    Signed(<<<<EarlierMessage, ChangeCommand>>>>) }

\* changeLanguage has saved `language` for the sender and resolved to its
\* confirmation
ChangeSaved(psid, language) ==
  \E i \in 1..Len(handlers) :
    /\ handlers[i].event.sender = psid
    /\ IsSome(handlers[i].response)
    /\ Val(handlers[i].response).tag = "language-changed"
    /\ Val(handlers[i].response).lang = Some(language)

\* the sender writes again after the change has been saved
PostLater ==
  /\ ChangeSaved("u1", <<"f", "r">>)
  /\ PostWithin(Signed(<<<<LaterMessage>>>>), MaxTurns, MaxTalkers)

NextRoundTrip ==
  \/ \E req \in ChangeDeliveries : PostWithin(req, MaxTurns, MaxTalkers)
  \/ PostLater
  \/ \E i \in 1..Len(handlers) : MarkSeenDone(i)
  \/ \E i \in 1..Len(handlers) : TypingOnDone(i)
  \/ \E i \in 1..Len(handlers) : GetUserDone(i)
  \/ \E i \in 1..Len(handlers) : AddUserDone(i)
  \/ \E i \in 1..Len(handlers), saved \in BOOLEAN : ChangeLanguageDone(i, saved)
  \/ \E i \in 1..Len(handlers) : TranslateDone(i)
  \/ \E i \in 1..Len(handlers) : SendDone(i)
  \/ \E i \in 1..Len(handlers) : Reject(i)

SpecRoundTrip == Init /\ [][NextRoundTrip]_vars

\* the handlers of the messages delivered after the change to "fr" was saved
LaterHandlers ==
  {j \in Handlers : IsMessageHandler(j) /\ handlers[j].event = LaterMessage}

ParseTexts ==
  { <<"h", "e", "l", "p">>,
    <<"-", "h", "e", "l", "p">>,
    <<"-", "-", "h", "e", "l", "p">>,
    <<"H", "e", "L", "p">>,
    <<"-", "-", "-", "h", "e", "l", "p">>,
    <<"h", "e", "l", "p", " ", "m", "e">>,
    <<"x", "h", "e", "l", "p">>,
    <<"h", "e", "l", "p", "\n">>,
    <<"l", "a", "n", "g", " ", "f", "r">>,
    <<"-", "l", "a", "n", "g", " ", "f", "r">>,
    <<"-", "-", "l", "a", "n", "g", "u", "a", "g", "e", " ", "f", "r">>,
    <<"l", "a", "n", "g", "u", "a", "g", "e", " ", "f", "r">>,
    <<"L", "A", "N", "G", " ", "f", "r">>,
    <<"-", "-", "L", "a", "n", "g", "u", "a", "g", "e", " ", "D", "E">>,
    <<"l", "a", "n", "g", " ", " ", "f", "r">>,
    <<"l", "a", "n", "g", " ">>,
    <<"l", "a", "n", "g">>,
    <<"l", "a", "n", "g", "f", "r">>,
    <<"s", "a", "y", " ", "l", "a", "n", "g", " ", "f", "r">>,
    <<"l", "a", "n", "g", " ", "f", "r", "\n", "d", "e">>,
    <<"l", "a", "n", "g", " ", "f", "r", "U+2028", "d", "e">>,
    <<"l", "a", "n", "g", " ", "U+2029">>,
    <<"l", "a", "n", "g", " ", "h", "e", "l", "p">>,
    <<"h", "i">>,
    <<>>,
    <<"-", "-", " ", "l", "a", "n", "g", " ", "f", "r">> }

ParseRequests == {Signed(<<<<Message(Some(text), None)>>>>) : text \in ParseTexts}

\* the sender is a user the store knows, with a locale and a language that
\* are not the defaults, so addUser is never awaited
InitParse == Init /\ store = [u \in Users |-> Some(ExistingUser)]

NextParse ==
  \/ \E req \in ParseRequests : Post(req)
  \/ \E i \in 1..Len(handlers) : MarkSeenDone(i)
  \/ \E i \in 1..Len(handlers) : TypingOnDone(i)
  \/ \E i \in 1..Len(handlers) : GetUserDone(i)
  \/ \E i \in 1..Len(handlers), saved \in BOOLEAN : ChangeLanguageDone(i, saved)
  \/ \E i \in 1..Len(handlers) : TranslateDone(i)
  \/ \E i \in 1..Len(handlers) : SendDone(i)
  \/ \E i \in 1..Len(handlers) : Reject(i)

SpecParse == InitParse /\ [][NextParse]_vars

CommandPrefixes == {<<>>, <<"-">>, <<"-", "-">>}

\* the whole text is "help" after an optional - or --, in any case
IsHelpText(text) == \E p \in CommandPrefixes : FoldAll(text) = p \o <<"h", "e", "l", "p">>

\* the lengths of a leading "lang " or "language ", after an optional - or --,
\* that leaves a non-empty remainder
LanguageHeads(text) ==
  {n \in 1..(Len(text) - 1) :
     \E p \in CommandPrefixes, w \in {<<"l", "a", "n", "g">>, <<"l", "a", "n", "g", "u", "a", "g", "e">>} :
       FoldAll(SubSeq(text, 1, n)) = p \o w \o <<" ">>}

OneLine(s) == \A n \in 1..Len(s) : s[n] \notin LineTerminators

\* what follows the head of a language command
Remainder(text) == SubSeq(text, (CHOOSE n \in LanguageHeads(text) : TRUE) + 1, Len(text))

\* a text message without attachments whose handler has its user
TextMessagesBound ==
  {i \in Handlers :
     /\ IsMessageHandler(i)
     /\ ~IsSome(Val(handlers[i].event.message).attachments)
     /\ IsSome(Val(handlers[i].event.message).text)
     /\ IsSome(handlers[i].user)}

TextOf(i) == Val(Val(handlers[i].event.message).text)

\* the branch handler i took, read off the calls it issued after the lookup
TookHelp(i) ==
  /\ \A c \in CallsOf(i) : c.api \notin {"changeLanguage", "translate"}
  /\ \E c \in TextSends(i) : c.text = Some(getHelp(Val(handlers[i].user).locale))

TookChangeLanguage(i, language) ==
  /\ \A c \in CallsOf(i) : c.api /= "translate"
  /\ \E c \in CallsOf(i) :
       /\ c.api = "changeLanguage" /\ c.psid = Val(handlers[i].user).psid
       /\ c.lang = Some(language) /\ c.locale = Val(handlers[i].user).locale
  /\ \A c \in TextSends(i) : Val(c.text).tag \in {"language-changed", "language-error"}

TookTranslate(i) ==
  /\ \A c \in CallsOf(i) : c.api /= "changeLanguage"
  /\ \E c \in CallsOf(i) :
       /\ c.api = "translate" /\ c.text = Some(TextOf(i))
       /\ c.lang = Some(Val(handlers[i].user).language)
       /\ c.locale = Val(handlers[i].user).locale
  /\ \A c \in TextSends(i) : Val(c.text).tag = "translation"

\* C10 as stated: help text for a help command; else changeLanguage with the
\* remainder verbatim for "lang"/"language", a space and any non-empty
\* remainder; else translate.
C10_AnyRemainder ==
  \A i \in TextMessagesBound :
    IF IsHelpText(TextOf(i)) THEN TookHelp(i)
    ELSE IF LanguageHeads(TextOf(i)) /= {} THEN TookChangeLanguage(i, Remainder(TextOf(i)))
    ELSE TookTranslate(i)

\* C10 amended: the language pattern takes a remainder that is non-empty and
\* holds no line terminator; a text with a line break in what follows
\* "lang " goes to translate like any other text that is not a command.
C10_FirstMatchWins ==
  \A i \in TextMessagesBound :
    IF IsHelpText(TextOf(i)) THEN TookHelp(i)
    ELSE IF LanguageHeads(TextOf(i)) /= {} /\ OneLine(Remainder(TextOf(i)))
    THEN TookChangeLanguage(i, Remainder(TextOf(i)))
    ELSE TookTranslate(i)

\* "--Language DE" reached changeLanguage with "DE", and its answer was sent
C10_Witness ==
  \E i \in TextMessagesBound :
    /\ TextOf(i) = <<"-", "-", "L", "a", "n", "g", "u", "a", "g", "e", " ", "D", "E">>
    /\ TookChangeLanguage(i, <<"D", "E">>)
    /\ handlers[i].pc = "done"

(***************************************************************************)
(* Postbacks: one postback at a time, over titles around the delimiter     *)
(* (nothing before it, a label before it, no delimiter, nothing after it,  *)
(* two delimiters, another case, one dash), for a new and a known sender.  *)
(***************************************************************************)
PostbackTitles ==
  { <<"-", "-", "l", "a", "n", "g", "u", "a", "g", "e", " ", "d", "e">>,
    <<"D", "e", "u", "t", "s", "c", "h", " ", "-", "-", "l", "a", "n", "g", "u", "a", "g", "e", " ", "d", "e">>,
    <<"G", "e", "r", "m", "a", "n">>,
    <<"-", "-", "l", "a", "n", "g", "u", "a", "g", "e", " ">>,
    <<"a", "-", "-", "l", "a", "n", "g", "u", "a", "g", "e", " ", "f", "r", "-", "-", "l", "a", "n", "g", "u", "a", "g", "e", " ", "d", "e">>,
    <<"-", "-", "L", "a", "n", "g", "u", "a", "g", "e", " ", "d", "e">>,
    <<"-", "l", "a", "n", "g", "u", "a", "g", "e", " ", "d", "e">>,
    <<"-", "-", "l", "a", "n", "g", "u", "a", "g", "e", " ", "x", "x">> }

PostbackRequests ==
  {Signed(<<<<Postback("change_language", title)>>>>) : title \in PostbackTitles}
    \cup {Signed(<<<<Postback(payload, <<"-", "-", "l", "a", "n", "g", "u", "a", "g", "e", " ", "d", "e">>)>>>>) :
            payload \in {"get_started", "get_help", "other"}}

NextPostback ==
  \/ \E req \in PostbackRequests : Post(req)
  \/ \E i \in 1..Len(handlers) : MarkSeenDone(i)
  \/ \E i \in 1..Len(handlers) : TypingOnDone(i)
  \/ \E i \in 1..Len(handlers) : GetUserDone(i)
  \/ \E i \in 1..Len(handlers) : AddUserDone(i)
  \/ \E i \in 1..Len(handlers), saved \in BOOLEAN : ChangeLanguageDone(i, saved)
  \/ \E i \in 1..Len(handlers) : SendDone(i)
  \/ \E i \in 1..Len(handlers) : Reject(i)

SpecPostback == Init /\ [][NextPostback]_vars

LanguageDelimiter == <<"-", "-", "l", "a", "n", "g", "u", "a", "g", "e", " ">>

\* the places of the title where the delimiter stands
DelimiterStarts(title) ==
  {i \in 1..Len(title) :
     /\ i + Len(LanguageDelimiter) - 1 <= Len(title)
     /\ SubSeq(title, i, i + Len(LanguageDelimiter) - 1) = LanguageDelimiter}

\* what stands between the first delimiter and the next one (or the end of the
\* title); nothing when the title holds no delimiter
SecondSegment(title) ==
  LET starts == DelimiterStarts(title)
  IN IF starts = {} THEN None
     ELSE LET first == CHOOSE i \in starts : \A j \in starts : i <= j
              from == first + Len(LanguageDelimiter)
              later == {i \in starts : i >= from}
              to == IF later = {} THEN Len(title)
                    ELSE (CHOOSE i \in later : \A j \in later : i <= j) - 1
          IN Some(SubSeq(title, from, to))

\* the change_language postbacks whose handler has its user
ChangeLanguagePostbacks ==
  {i \in Handlers :
     /\ IsPostbackHandler(i)
     /\ Val(handlers[i].event.postback).payload = "change_language"
     /\ IsSome(handlers[i].user)}

\* C11: for a postback with payload change_language, changeLanguage is called
\* with the second segment of the title split on "--language " as language
\* and with the user's locale, and the only text response sent is the string
\* changeLanguage returned.
C11_TitleSecondSegment ==
  \A i \in ChangeLanguagePostbacks :
    LET h == handlers[i]
        user == Val(h.user)
        language == SecondSegment(Val(h.event.postback).title)
        answers == {changeLanguageReply(language, user.locale, saved) : saved \in BOOLEAN}
    IN /\ IsSome(store[h.event.sender]) /\ user.locale = Val(store[h.event.sender]).locale
       /\ {c \in CallsOf(i) : c.api \notin {"send", "getUser", "addUser"}}
            = {Call("changeLanguage", h.event.sender, "", None, language, user.locale)}
       /\ \A c \in TextSends(i) : c.psid = h.event.sender /\ Val(c.text) \in answers
       /\ h.pc \in {"send", "done"} =>
            TextSends(i) = {Call("send", h.event.sender, "", h.response, None, "")}
       /\ Delivered(i) \subseteq {Val(c.text) : c \in TextSends(i)}
       /\ h.pc = "done" => Delivered(i) = {Val(h.response)}

\* a new sender pressed "Deutsch --language de": "de" was saved and confirmed
C11_Witness ==
  \E i \in ChangeLanguagePostbacks :
    /\ Val(handlers[i].event.postback).title
         = <<"D", "e", "u", "t", "s", "c", "h", " ", "-", "-", "l", "a", "n", "g", "u", "a", "g", "e", " ", "d", "e">>
    /\ handlers[i].pc = "done"
    /\ Delivered(i) = {changeLanguageReply(Some(<<"d", "e">>), DefaultLocale, TRUE)}
    /\ Val(store["u1"]) = [psid |-> "u1", language |-> <<"d", "e">>, locale |-> DefaultLocale]

(***************************************************************************)
(* Failures and progress of one handler.  A handler whose pc is "done" or  *)
(* "rejected" has ended: its async function returned or threw.             *)
(***************************************************************************)
Indicators == {"mark_seen", "typing_on"}

\* the call handler i issued last
LastCall(i) == handlers[i].calls[Len(handlers[i].calls)]

Ended(i) == handlers[i].pc \in {"done", "rejected"}

\* handler i ended because the indicator call it awaited failed
IndicatorFailed(i) ==
  /\ handlers[i].pc = "rejected"
  /\ LastCall(i).api = "send" /\ LastCall(i).action \in Indicators

\* C12: a failed mark_seen or typing_on call does not gate the processing of
\* its event: a handler never ends at a failed indicator call without having
\* resolved the user record.
C12_IndicatorsDoNotGate ==
  \A i \in Handlers : IndicatorFailed(i) => IsSome(handlers[i].user)

\* every event of delivery r is a message or a postback
AllKnown(r) == \A k \in 1..Len(EventsOf(r)) : ~IsUnknownKind(EventsOf(r)[k])

\* C13: the response to a POST delivery does not wait for the event handlers.
\* It is on the wire in the state the delivery's handlers are started in,
\* whatever becomes of their outbound calls (for a page delivery of messages
\* and postbacks: 200 "Success", sent once, every event dispatched), and no
\* later step of a handler, a failure included, changes a response.
C13_ResponseDoesNotWait ==
  /\ [](\A r \in Posts :
          /\ IsSome(http[r].res.sent)
          /\ (SignatureMatches(http[r].req) /\ http[r].req.body.object = "page" /\ AllKnown(r)) =>
               /\ Val(http[r].res.sent) = [status |-> 200, body |-> "Success"]
               /\ http[r].res.attempts = 1
               /\ Cardinality(HandlersOf(r)) = Len(EventsOf(r)))
  /\ [][\A r \in 1..Len(http) : http'[r] = http[r]]_vars

\* 200 went out for a delivery of two events; the handler of one has failed
\* since and the other still waits for its first outbound call
C13_Witness ==
  \E r \in Posts :
    /\ Val(http[r].res.sent) = [status |-> 200, body |-> "Success"]
    /\ http[r].res.attempts = 1
    /\ \E i, j \in HandlersOf(r) :
         /\ handlers[i].pc = "rejected" /\ Len(handlers[i].calls) > 3
         /\ handlers[j].pc = "mark_seen" /\ Len(handlers[j].calls) = 1

\* the calls a handler may be waiting for
Awaited == {"mark_seen", "typing_on", "getUser", "addUser", "changeLanguage", "translate", "send"}

\* what the awaited call pc looks like among the calls issued
IsCallOf(call, pc) ==
  CASE pc \in Indicators -> call.api = "send" /\ call.action = pc
    [] pc = "send" -> call.api = "send" /\ IsSome(call.text)
    [] OTHER -> call.api = pc

\* C14: within one handler the outbound calls are strictly ordered.  The calls
\* issued are mark_seen, typing_on, getUser in that order and then the others;
\* a text response is issued only once the user record is resolved; the only
\* call outstanding is the last one issued, and a step issues at most one
\* call, in the turn in which the call awaited before it completes.
C14_CallsInOrder ==
  /\ [](\A i \in Handlers :
          LET h == handlers[i]
          IN /\ h.calls[1] = SendAction(h.event.sender, "mark_seen")
             /\ Len(h.calls) >= 2 => h.calls[2] = SendAction(h.event.sender, "typing_on")
             /\ Len(h.calls) >= 3 => h.calls[3].api = "getUser"
             /\ \A n \in 4..Len(h.calls) :
                  /\ h.calls[n].api /= "getUser"
                  /\ h.calls[n].api = "send" => IsSome(h.calls[n].text) /\ IsSome(h.user)
             /\ IsSome(h.user) => Len(h.calls) >= 3
             /\ h.pc \in Awaited => IsCallOf(LastCall(i), h.pc))
  /\ [][\A i \in 1..Len(handlers) :
          LET before == handlers[i].calls
              after == handlers'[i].calls
          IN /\ Len(after) <= Len(before) + 1
             /\ SubSeq(after, 1, Len(before)) = before
             /\ Len(after) > Len(before) =>
                  /\ handlers[i].pc \in Awaited
                  /\ handlers'[i].pc \in Awaited
                  /\ IsCallOf(after[Len(after)], handlers'[i].pc)]_vars

\* across events nothing is ordered: the second event of a delivery has its
\* text response out while the first still waits for its mark_seen call
C14_Witness ==
  \E i, j \in Handlers :
    /\ handlers[i].req = handlers[j].req /\ handlers[i].pos < handlers[j].pos
    /\ handlers[i].pc = "mark_seen"
    /\ handlers[j].pc = "done" /\ Delivered(j) /= {}
    /\ Len(handlers[j].calls) >= 4

\* how many times handler i has issued the call pc
TimesIssued(i, pc) ==
  Cardinality({n \in 1..Len(handlers[i].calls) : IsCallOf(handlers[i].calls[n], pc)})

\* how many text responses reached the user on behalf of handler i
TimesDelivered(i) == Cardinality({n \in 1..Len(outbox) : outbox[n].handler = i})

\* C15: an event is handled in one pass.  Each outbound call of its handler
\* (mark_seen, typing_on, getUser, addUser, changeLanguage, translate, the
\* text send) is issued at most once and at most one text response reaches
\* the user; once the handler has ended, by returning or by a failed call, it
\* issues nothing more and nothing more is delivered for it.
C15_OnePassNoRetry ==
  /\ [](\A i \in Handlers :
          /\ \A pc \in Awaited : TimesIssued(i, pc) <= 1
          /\ TimesDelivered(i) <= TimesIssued(i, "send"))
  /\ [][\A i \in 1..Len(handlers) :
          Ended(i) =>
            /\ handlers'[i] = handlers[i]
            /\ \A n \in 1..Len(outbox') : outbox'[n].handler = i => n <= Len(outbox)]_vars

\* the translation of a message could not be sent: the handler ended there,
\* after six calls, each issued once, and nothing reached the user
C15_Witness ==
  \E i \in Handlers :
    /\ handlers[i].pc = "rejected"
    /\ IsCallOf(LastCall(i), "send") /\ Val(LastCall(i).text).tag = "translation"
    /\ Len(handlers[i].calls) = 6
    /\ TimesDelivered(i) = 0

(***************************************************************************)
(* Handlers of one sender running side by side.                            *)
(***************************************************************************)
\* the addUser calls issued for sender id, over all handlers
AddUserCalls(id) ==
  UNION {{<<i, n>> : n \in {m \in 1..Len(handlers[i].calls) :
                             /\ handlers[i].calls[m].api = "addUser"
                             /\ handlers[i].calls[m].psid = id}} : i \in Handlers}

\* C16: however the handlers of a sender without a record interleave, addUser
\* is called at most once for that sender id.
C16_AddUserAtMostOnce ==
  \A id \in Users : Cardinality(AddUserCalls(id)) <= 1

\* handler i ended and none of its outbound calls failed: it returned, or it
\* threw in the turn that bound its user
EndedWithoutFailedCall(i) ==
  \/ handlers[i].pc = "done"
  \/ /\ handlers[i].pc = "rejected"
     /\ IsSome(handlers[i].user)
     /\ LastCall(i).api \in {"getUser", "addUser"}

\* C17: a message event whose outbound calls all succeed ends with exactly
\* one text response delivered to its sender, whatever its shape (text,
\* attachments, both, neither).
C17_OneResponsePerMessage ==
  \A i \in Handlers :
    (IsMessageHandler(i) /\ EndedWithoutFailedCall(i)) =>
      /\ TimesDelivered(i) = 1
      /\ \A n \in 1..Len(outbox) :
           outbox[n].handler = i => outbox[n].to = handlers[i].event.sender

\* the position of the event behind outbox entry n, and its delivery
OutboxPos(n) == handlers[outbox[n].handler].pos
OutboxReq(n) == handlers[outbox[n].handler].req

\* handler i saved a change to language X and was handed the confirmation
ChangedTo(i) ==
  {c.lang : c \in {d \in CallsOf(i) :
             /\ d.api = "changeLanguage"
             /\ handlers[i].response = Some(changeLanguageReply(d.lang, d.locale, TRUE))}}

\* C18 as stated: the events of one sender inside one delivery take effect in
\* delivery order: their text responses reach the user in the order of the
\* events, and a text event that follows a change-language event is
\* translated into the language that event chose.
C18_DeliveryOrder ==
  /\ \A n, m \in 1..Len(outbox) :
       (n < m /\ OutboxReq(n) = OutboxReq(m) /\ outbox[n].to = outbox[m].to) =>
         OutboxPos(n) < OutboxPos(m)
  /\ \A i, j \in Handlers :
       (/\ handlers[i].req = handlers[j].req /\ handlers[i].pos < handlers[j].pos
        /\ handlers[i].event.sender = handlers[j].event.sender) =>
         \A lang \in ChangedTo(i) :
           \A c \in CallsOf(j) : c.api = "translate" => c.lang = lang

\* C18 amended: the events of a delivery are dispatched in delivery order
\* (their handlers are started, with the mark_seen call issued, in the order
\* of the events), and nothing after that is ordered between them.  A text
\* is translated into the language of the record the lookup of its own
\* handler returned, and a handler keeps that record whatever is saved later.
C18_DispatchOrderOnly ==
  /\ [](/\ \A i \in Handlers :
             /\ handlers[i].req \in Posts
             /\ handlers[i].pos \in 1..Len(EventsOf(handlers[i].req))
             /\ handlers[i].event = EventsOf(handlers[i].req)[handlers[i].pos]
             /\ http[handlers[i].req].hids[handlers[i].pos] = i
             /\ handlers[i].calls[1] = SendAction(handlers[i].event.sender, "mark_seen")
             /\ \A c \in CallsOf(i) :
                  c.api = "translate" =>
                    /\ IsSome(handlers[i].user)
                    /\ c.lang = Some(Val(handlers[i].user).language)
        /\ \A i, j \in Handlers :
             (i < j /\ handlers[i].req = handlers[j].req) => handlers[i].pos < handlers[j].pos)
  /\ [][\A i \in 1..Len(handlers) :
          IsSome(handlers[i].user) => handlers'[i].user = handlers[i].user]_vars

\* "lang fr" then "hi" in one delivery: the translation of "hi", into the
\* language stored before, reached the user first; the change to "fr" was
\* saved and confirmed after it
C18_Witness ==
  /\ Len(outbox) = 2
  /\ OutboxReq(1) = OutboxReq(2)
  /\ OutboxPos(1) = 2 /\ OutboxPos(2) = 1
  /\ outbox[1].body.tag = "translation" /\ outbox[1].body.lang = Some(<<"d", "e">>)
  /\ outbox[2].body = changeLanguageReply(Some(<<"f", "r">>), "fr_FR", TRUE)
  /\ Val(store["u1"]).language = <<"f", "r">>

====
